---------------------------- MODULE Spec2Model ----------------------------
(***************************************************************************)
(* Model of the nyc_apartments provider aggregation pipeline               *)
(* (aggregator.py, filters.py, geo.py, providers/, http_client.py,         *)
(* storage/sqlite_store.py).                                               *)
(*                                                                         *)
(* Conventions                                                             *)
(*   Optional[T]   None is the empty tuple <<>>, a value x is <<x>>.       *)
(*   float         a record [k, v]: k = "fin" with the number in v,        *)
(*                 k = "nan" (IEEE NaN) or k = "inf" (an infinity).        *)
(*   distances     whole kilometres: haversine_km evaluated at the grid    *)
(*                 points and rounded to the nearest kilometre.            *)
(***************************************************************************)
EXTENDS Integers, Sequences, FiniteSets, TLC

VARIABLES
    \* ---- run_aggregation (aggregator.py) ----
    config,        \* the AppConfig passed to run_aggregation
    upstream,      \* environment: the listings each provider's upstream can serve
    pc,            \* position inside run_aggregation
    center,        \* local `center` (Optional Location)
    resolve_log,   \* one entry per resolve_center call of the run
    DISCOVERED,    \* providers/base.py module global _DISCOVERED
    providers,     \* local `providers`
    idx,           \* position of the for loop over providers (1-based)
    apartments,    \* local `apartments`
    fetch_log,     \* one entry per provider.fetch call of the run
    deduped,       \* local `deduped`
    filtered,      \* local `filtered` before the sort
    result,        \* the returned list
    raised,        \* the error that left run_aggregation ("none" if none)
    \* ---- filter_by_price / filter_by_beds called on their own ----
    f_op, f_in, f_min, f_max, f_out,
    \* ---- fetch_json (http_client.py) ----
    h_pc, retries, attempt, last_exc, h_log, h_sleeps, h_result,
    \* ---- discover_providers called by concurrent callers (providers/base.py) ----
    d_pc,          \* per caller: its position inside discover_providers
    d_names,       \* per caller: the enabled_names of its call
    d_ret,         \* per caller: the list its last call returned, as it is now
    d_calls,       \* one entry per completed call: enabled_names and the value returned
    d_scans,       \* number of _iter_provider_classes() runs so far
    \* ---- a concrete provider's fetch, after fetch_json returned ----
    p_pc, p_provider,
    p_raw,         \* local `raw`: the decoded JSON response
    p_i,           \* position of the for loop over raw (1-based)
    p_apartments,  \* local `apartments`
    \* ---- storage/sqlite_store.py ----
    s_table,       \* the rows of table apartments: (provider, id) -> first_seen_ts
    s_now,         \* the clock, in seconds
    s_log          \* one entry per upsert_apartments / get_new_since_last_run call

pipeVars == <<config, upstream, pc, center, resolve_log, DISCOVERED, providers,
              idx, apartments, fetch_log, deduped, filtered, result, raised>>
filterVars == <<f_op, f_in, f_min, f_max, f_out>>
httpVars == <<h_pc, retries, attempt, last_exc, h_log, h_sleeps, h_result>>
discoverVars == <<d_pc, d_names, d_ret, d_calls, d_scans>>
providerVars == <<p_pc, p_provider, p_raw, p_i, p_apartments>>
storeVars == <<s_table, s_now, s_log>>
vars == <<pipeVars, filterVars, httpVars, discoverVars, providerVars, storeVars>>

-----------------------------------------------------------------------------
(* Values *)

None == <<>>
Some(x) == <<x>>
IsNone(o) == o = <<>>
Val(o) == o[1]

Fin(n) == [k |-> "fin", v |-> n]
NaN == [k |-> "nan", v |-> 0]
Inf == [k |-> "inf", v |-> 0]

SeqToSet(s) == {s[i] : i \in 1..Len(s)}

RECURSIVE SeqsUpTo(_, _)
\* every sequence over S of length at most n
SeqsUpTo(S, n) ==
    IF n = 0 THEN {<<>>}
    ELSE LET shorter == SeqsUpTo(S, n - 1)
         IN  shorter \cup {Append(s, x) : s \in {t \in shorter : Len(t) = n - 1}, x \in S}

-----------------------------------------------------------------------------
(* geo.py *)

EARTH_RADIUS_KM == 6371

\* haversine_km at the grid points lat 40..42, lon -74..-73, from the formula
\* of geo.py:17-26 with R = EARTH_RADIUS_KM, rounded to whole kilometres;
\* the key is <<lat1, lat2, |lon2 - lon1|>>.
HaversineTable ==
    [t \in {<<40, 40, 0>>} |-> 0] @@
    ( <<40, 40, 1>> :> 85  @@ <<40, 41, 0>> :> 111 @@ <<40, 41, 1>> :> 140 @@
      <<40, 42, 0>> :> 222 @@ <<40, 42, 1>> :> 238 @@ <<41, 40, 0>> :> 111 @@
      <<41, 40, 1>> :> 140 @@ <<41, 41, 0>> :> 0   @@ <<41, 41, 1>> :> 84  @@
      <<41, 42, 0>> :> 111 @@ <<41, 42, 1>> :> 139 @@ <<42, 40, 0>> :> 222 @@
      <<42, 40, 1>> :> 238 @@ <<42, 41, 0>> :> 111 @@ <<42, 41, 1>> :> 139 @@
      <<42, 42, 0>> :> 0   @@ <<42, 42, 1>> :> 83 )

Abs(n) == IF n < 0 THEN -n ELSE n

\* haversine_km(lat1, lon1, lat2, lon2) on floats (geo.py:14-26).  math.sin
\* and math.cos of an infinite argument raise ValueError("math domain error"):
\* the outcome is then [k |-> "err"].  That happens when a latitude is
\* infinite (cos(phi)), or when exactly one longitude is infinite and the
\* other is a number (sin(d_lambda / 2)).  Otherwise a NaN argument gives NaN.
haversine_km(lat1, lon1, lat2, lon2) ==
    IF \/ lat1.k = "inf" \/ lat2.k = "inf"
       \/ lon1.k = "inf" /\ lon2.k = "fin"
       \/ lon1.k = "fin" /\ lon2.k = "inf"
    THEN [k |-> "err", v |-> 0]
    ELSE IF \E x \in {lat1, lon1, lat2, lon2} : x.k # "fin" THEN NaN
    ELSE Fin(HaversineTable[<<lat1.v, lat2.v, Abs(lon2.v - lon1.v)>>])

\* x <= y on floats as Python evaluates it: any comparison with NaN is False
FloatLeq(x, y) ==
    /\ x.k # "nan" /\ y.k # "nan"
    /\ \/ y.k = "inf"
       \/ x.k = "fin" /\ y.k = "fin" /\ x.v <= y.v

\* within_radius(center, point, radius_km): "err" when haversine_km raises
within_radius(c, point, radius_km) ==
    LET d == haversine_km(c.lat, c.lon, point.lat, point.lon)
    IN  IF d.k = "err" THEN "err"
        ELSE IF FloatLeq(d, radius_km) THEN "yes" ELSE "no"

-----------------------------------------------------------------------------
(* models.py: an Apartment is a record
     [provider, id, lat, lon, price, beds]
   with lat, lon Optional floats, price and beds Optional integers.  The
   other fields of the class are never read by the pipeline. *)

Key(apt) == <<apt.provider, apt.id>>

Location(lat, lon) == [lat |-> lat, lon |-> lon]

-----------------------------------------------------------------------------
(* filters.py *)

\* keeps_value with <= and >= for < and >: a value at a bound is dropped
keeps_value_exclusive(value, min, max) ==
    IF IsNone(value) THEN TRUE
    ELSE IF ~IsNone(min) /\ Val(value) <= Val(min) THEN FALSE
    ELSE IF ~IsNone(max) /\ Val(value) >= Val(max) THEN FALSE
    ELSE TRUE

\* the test of one listing in the loop of filter_by_price / filter_by_beds
\* (filters.py:15-24 and 33-41): value is apt.price or apt.beds
keeps_value(value, min, max) ==
    IF IsNone(value) THEN TRUE
    ELSE IF ~IsNone(min) /\ Val(value) < Val(min) THEN FALSE
    ELSE IF ~IsNone(max) /\ Val(value) > Val(max) THEN FALSE
    ELSE TRUE

\* filter_by_price that raises a price below min_price to min_price instead of
\* dropping the listing
filter_by_price_clamping(apts, min_price, max_price) ==
    LET raise(apt) == IF ~IsNone(apt.price) /\ ~IsNone(min_price) /\ Val(apt.price) < Val(min_price)
                      THEN [apt EXCEPT !.price = min_price] ELSE apt
        raised_apts == [i \in 1..Len(apts) |-> raise(apts[i])]
    IN  SelectSeq(raised_apts, LAMBDA apt : keeps_value(apt.price, min_price, max_price))

filter_by_price(apts, min_price, max_price) ==
    SelectSeq(apts, LAMBDA apt : keeps_value(apt.price, min_price, max_price))

filter_by_beds(apts, min_beds, max_beds) ==
    SelectSeq(apts, LAMBDA apt : keeps_value(apt.beds, min_beds, max_beds))

\* radius_test that lets a listing without coordinates through
radius_test_keep_missing(apt, c, radius_km) ==
    IF IsNone(apt.lat) \/ IsNone(apt.lon) THEN "yes"
    ELSE within_radius(c, Location(Val(apt.lat), Val(apt.lon)), radius_km)

\* the test of one listing in the loop of filter_by_radius: "drop" without
\* both coordinates, otherwise what within_radius says ("yes", "no", "err")
radius_test(apt, c, radius_km) ==
    IF IsNone(apt.lat) \/ IsNone(apt.lon) THEN "drop"
    ELSE within_radius(c, Location(Val(apt.lat), Val(apt.lon)), radius_km)

\* filter_by_radius: [k |-> "ok", v |-> the kept listings], or [k |-> "err"]
\* when within_radius raises on a listing of the loop
filter_by_radius(apts, c, radius_km) ==
    IF \E i \in 1..Len(apts) : radius_test(apts[i], c, radius_km) = "err"
    THEN [k |-> "err", v |-> <<>>]
    ELSE [k |-> "ok",
          v |-> SelectSeq(apts, LAMBDA apt : radius_test(apt, c, radius_km) = "yes")]

\* result[: config.limit] when config.limit is not None and > 0
apply_limit(apts, limit) ==
    IF ~IsNone(limit) /\ Val(limit) > 0
    THEN SubSeq(apts, 1, IF Val(limit) < Len(apts) THEN Val(limit) ELSE Len(apts))
    ELSE apts

\* apply_filters that truncates to the limit before the three predicates
apply_filters_limit_first(apts, cfg, c) ==
    LET r == filter_by_radius(apply_limit(apts, cfg.limit), c, cfg.radius_km)
    IN  IF r.k = "err" THEN r
        ELSE [k |-> "ok",
              v |-> filter_by_beds(
                        filter_by_price(r.v, cfg.min_price, cfg.max_price),
                        cfg.min_beds, cfg.max_beds)]

apply_filters(apts, cfg, c) ==
    LET r == filter_by_radius(apts, c, cfg.radius_km)
    IN  IF r.k = "err" THEN r
        ELSE [k |-> "ok",
              v |-> apply_limit(
                        filter_by_beds(
                            filter_by_price(r.v, cfg.min_price, cfg.max_price),
                            cfg.min_beds, cfg.max_beds),
                        cfg.limit)]

-----------------------------------------------------------------------------
(* aggregator.py: the pure parts of run_aggregation *)

RECURSIVE dedupe_loop(_, _, _)
\* the loop of aggregator.py:50-55 over the rest of `apartments`
dedupe_loop(rest, seen, out) ==
    IF rest = <<>> THEN out
    ELSE LET apt == Head(rest)
         IN  IF Key(apt) \in seen
             THEN dedupe_loop(Tail(rest), seen, out)
             ELSE dedupe_loop(Tail(rest), seen \cup {Key(apt)}, Append(out, apt))

RECURSIVE dedupe_by_id_loop(_, _, _)
dedupe_by_id_loop(rest, seen, out) ==
    IF rest = <<>> THEN out
    ELSE LET apt == Head(rest)
         IN  IF apt.id \in seen
             THEN dedupe_by_id_loop(Tail(rest), seen, out)
             ELSE dedupe_by_id_loop(Tail(rest), seen \cup {apt.id}, Append(out, apt))

\* dedupe with the key (apt.id) instead of (apt.provider, apt.id)
dedupe_by_id(apts) == dedupe_by_id_loop(apts, {}, <<>>)

dedupe(apts) == dedupe_loop(apts, {}, <<>>)

\* sort_key with the components swapped: (price, distance)
sort_key_price_first(apt, c) ==
    LET distance == IF IsNone(apt.lat) \/ IsNone(apt.lon) THEN Inf
                    ELSE haversine_km(c.lat, c.lon, Val(apt.lat), Val(apt.lon))
        price == IF IsNone(apt.price) THEN Inf ELSE Fin(Val(apt.price))
    IN  <<price, distance>>

\* sort_key(apt) = (distance, price); the distance is [k |-> "err"] when
\* haversine_km raises
sort_key(apt, c) ==
    LET distance == IF IsNone(apt.lat) \/ IsNone(apt.lon) THEN Inf
                    ELSE haversine_km(c.lat, c.lon, Val(apt.lat), Val(apt.lon))
        price == IF IsNone(apt.price) THEN Inf ELSE Fin(Val(apt.price))
    IN  <<distance, price>>

FloatEq(x, y) == x.k # "nan" /\ y.k # "nan" /\ x.k = y.k /\ x.v = y.v
FloatLess(x, y) ==
    /\ x.k # "nan" /\ y.k # "nan"
    /\ \/ x.k = "fin" /\ y.k = "inf"
       \/ x.k = "fin" /\ y.k = "fin" /\ x.v < y.v

\* Python's tuple comparison a < b of two sort keys
KeyLess(a, b) ==
    IF ~FloatEq(a[1], b[1]) THEN FloatLess(a[1], b[1]) ELSE FloatLess(a[2], b[2])

RECURSIVE insert_sorted(_, _, _)
\* x placed after the last element of the sorted list whose key is not above x's
insert_sorted(sorted, x, c) ==
    IF sorted = <<>> THEN <<x>>
    ELSE LET last == sorted[Len(sorted)]
         IN  IF KeyLess(sort_key(x, c), sort_key(last, c))
             THEN Append(insert_sorted(SubSeq(sorted, 1, Len(sorted) - 1), x, c), last)
             ELSE Append(sorted, x)

RECURSIVE sort_loop(_, _, _)
sort_loop(rest, sorted, c) ==
    IF rest = <<>> THEN sorted
    ELSE sort_loop(Tail(rest), insert_sorted(sorted, Head(rest), c), c)

\* filtered.sort(key=sort_key): list.sort is stable and, on lists this short,
\* a binary insertion sort that compares keys with < only
sort_by_key(apts, c) == sort_loop(apts, <<>>, c)

-----------------------------------------------------------------------------
(* aggregator.py: resolve_center *)

\* `not config.center_address`: None and the empty string are falsy
Falsy(address) == IsNone(address) \/ Val(address) = ""

\* resolve_center that geocodes the address whenever one is given, even with
\* both coordinates present
resolve_center_address_first(cfg, answer) ==
    IF ~(IsNone(cfg.center_address) \/ Val(cfg.center_address) = "") THEN
        IF IsNone(answer)
        THEN [k |-> "ResolutionError", geocoded |-> TRUE, answer |-> answer, loc |-> None]
        ELSE [k |-> "ok", geocoded |-> TRUE, answer |-> answer, loc |-> answer]
    ELSE IF ~IsNone(cfg.center_lat) /\ ~IsNone(cfg.center_lon) THEN
        [k |-> "ok", geocoded |-> FALSE, answer |-> None,
         loc |-> Some([lat |-> Val(cfg.center_lat), lon |-> Val(cfg.center_lon)])]
    ELSE [k |-> "ConfigurationError", geocoded |-> FALSE, answer |-> None, loc |-> None]

\* resolve_center(config), given the answer the geocoding service would give
\* (None for no match).  k is "ok" or the error raised: "ConfigurationError"
\* is the ValueError of line 20, "ResolutionError" the RuntimeError of line
\* 26.  geocoded tells whether geocode_address was called, answer what it
\* returned, loc the Location returned.
resolve_center(cfg, answer) ==
    IF ~IsNone(cfg.center_lat) /\ ~IsNone(cfg.center_lon) THEN
        [k |-> "ok", geocoded |-> FALSE, answer |-> None,
         loc |-> Some(Location(Val(cfg.center_lat), Val(cfg.center_lon)))]
    ELSE IF Falsy(cfg.center_address) THEN
        [k |-> "ConfigurationError", geocoded |-> FALSE, answer |-> None, loc |-> None]
    ELSE IF IsNone(answer) THEN
        [k |-> "ResolutionError", geocoded |-> TRUE, answer |-> answer, loc |-> None]
    ELSE [k |-> "ok", geocoded |-> TRUE, answer |-> answer, loc |-> answer]

\* what geocoder.geocode(address) can answer
GeocodeAnswers == {None, Some(Location(Fin(40), Fin(-74)))}

ResolveEntry(by, r) ==
    [by |-> by, geocoded |-> r.geocoded, answer |-> r.answer, outcome |-> r.k, loc |-> r.loc]

-----------------------------------------------------------------------------
(* providers/base.py *)

NYC == "nyc_open_data_hny_buildings"
RENTCAST == "rentcast_rental_listings"

\* _iter_provider_classes(): the BaseProvider subclasses of the modules of the
\* providers package, in the module order of pkgutil.iter_modules (by name)
iter_provider_classes == <<NYC, RENTCAST>>

\* discover_providers that walks enabled_names and keeps the names that are
\* discovered: the result is in the order of enabled_names
discover_providers_input_order(enabled_names, cache) ==
    IF enabled_names = <<>> THEN cache
    ELSE SelectSeq(enabled_names, LAMBDA name : name \in SeqToSet(cache))

\* the value discover_providers returns, once _DISCOVERED holds `cache`.
\* `not enabled_names` (line 65) is true of None and of the empty list: both
\* are the empty sequence here.
discover_providers(enabled_names, cache) ==
    IF enabled_names = <<>> THEN cache
    ELSE SelectSeq(cache, LAMBDA cls : cls \in SeqToSet(enabled_names))

\* returned_list that hands out _DISCOVERED itself when enabled_names is empty
returned_list_shared(enabled_names, cache) ==
    [shared |-> enabled_names = <<>>, v |-> discover_providers(enabled_names, cache)]

\* the list object discover_providers returns: shared tells whether it is
\* the object _DISCOVERED refers to.  list(_DISCOVERED) (line 66) and the
\* comprehension (line 69) both build a new list.
returned_list(enabled_names, cache) ==
    [shared |-> FALSE, v |-> discover_providers(enabled_names, cache)]

-----------------------------------------------------------------------------
(* run_aggregation, step by step *)

MaxRows == 2

\* the first line of run_aggregation with a failed resolution logged and
\* swallowed instead of raised: the run goes on to discovery
ResolveCenter_continue ==
    /\ pc = "start"
    /\ \E answer \in GeocodeAnswers :
        LET r == resolve_center(config, answer)
        IN  /\ resolve_log' = Append(resolve_log, ResolveEntry("run_aggregation", r))
            /\ center' = r.loc
            /\ pc' = "discover"
            /\ raised' = IF r.k = "ok" THEN raised ELSE r.k
    /\ UNCHANGED <<config, upstream, DISCOVERED, providers, idx, apartments,
                   fetch_log, deduped, filtered, result>>
    /\ UNCHANGED <<filterVars, httpVars, discoverVars, providerVars, storeVars>>

\* aggregator.py:32
ResolveCenter ==
    /\ pc = "start"
    /\ \E answer \in GeocodeAnswers :
        LET r == resolve_center(config, answer)
        IN  /\ resolve_log' = Append(resolve_log, ResolveEntry("run_aggregation", r))
            /\ IF r.k = "ok"
               THEN /\ center' = r.loc
                    /\ pc' = "discover"
                    /\ raised' = raised
               ELSE /\ center' = center
                    /\ pc' = "raised"
                    /\ raised' = r.k
    /\ UNCHANGED <<config, upstream, DISCOVERED, providers, idx, apartments,
                   fetch_log, deduped, filtered, result>>
    /\ UNCHANGED <<filterVars, httpVars, discoverVars, providerVars, storeVars>>

\* aggregator.py:34-37
Discover ==
    /\ pc = "discover"
    /\ DISCOVERED' = IF IsNone(DISCOVERED) THEN Some(iter_provider_classes)
                     ELSE DISCOVERED
    /\ providers' = discover_providers(config.providers, Val(DISCOVERED'))
    /\ idx' = 1
    /\ apartments' = <<>>
    /\ pc' = "loop"
    /\ UNCHANGED <<config, upstream, center, resolve_log, fetch_log, deduped,
                   filtered, result, raised>>
    /\ UNCHANGED <<filterVars, httpVars, discoverVars, providerVars, storeVars>>

\* the rows a provider's fetch returns when its HTTP call succeeds: the
\* normalized rows of the response, in upstream order
Rows(p) == SeqsUpTo(upstream[p], MaxRows)

\* LoopStep without the try/except of aggregator.py:41-45: the error of a
\* fetch leaves run_aggregation
LoopStep_uncaught(p, err, rows) ==
    /\ fetch_log' = Append(fetch_log,
                           [provider |-> p, outcome |-> IF err = "ok" THEN "ok" ELSE "raised",
                            error |-> err, rows |-> rows])
    /\ apartments' = IF err = "ok" THEN apartments \o rows ELSE apartments
    /\ idx' = idx + 1
    /\ pc' = IF err = "ok" THEN "loop" ELSE "raised"

\* one iteration of the loop of aggregator.py:39-45 whose fetch returned `rows`
\* (err = "ok") or raised err: a raise is caught and logged, and nothing is
\* added
LoopStep(p, err, rows) ==
    /\ fetch_log' = Append(fetch_log,
                           [provider |-> p, outcome |-> IF err = "ok" THEN "ok" ELSE "raised",
                            error |-> err, rows |-> rows])
    /\ apartments' = IF err = "ok" THEN apartments \o rows ELSE apartments
    /\ idx' = idx + 1
    /\ pc' = "loop"

\* the iteration for NYCHousingNewYorkBuildingsProvider: fetch_json raises, or
\* the response is normalized row by row
FetchNYC ==
    /\ pc = "loop" /\ idx <= Len(providers) /\ providers[idx] = NYC
    /\ \E http \in {"ok", "FetchError"} :
        \E rows \in (IF http = "ok" THEN Rows(NYC) ELSE {<<>>}) :
            LoopStep(NYC, http, rows)
    /\ UNCHANGED <<config, upstream, center, resolve_log, DISCOVERED, providers,
                   deduped, filtered, result, raised>>
    /\ UNCHANGED <<filterVars, httpVars, discoverVars, providerVars, storeVars>>

\* the iteration for RentcastLongTermRentalProvider: without an API key the
\* fetch returns [] at once; otherwise it resolves the center itself
\* (rentcast_rental_listings.py:35), which may raise, then calls fetch_json.
\* config.rentcast_api_key stands for the key line 28 ends up with, from
\* the configuration or from the RENTCAST_API_KEY environment variable.
FetchRentcast ==
    /\ pc = "loop" /\ idx <= Len(providers) /\ providers[idx] = RENTCAST
    /\ IF IsNone(config.rentcast_api_key) \/ Val(config.rentcast_api_key) = ""
       THEN /\ LoopStep(RENTCAST, "ok", <<>>)
            /\ resolve_log' = resolve_log
       ELSE \E answer \in GeocodeAnswers :
            LET r == resolve_center(config, answer)
            IN  /\ resolve_log' = Append(resolve_log, ResolveEntry(RENTCAST, r))
                /\ IF r.k # "ok"
                   THEN LoopStep(RENTCAST, r.k, <<>>)
                   ELSE \E http \in {"ok", "FetchError"} :
                        \E rows \in (IF http = "ok" THEN Rows(RENTCAST) ELSE {<<>>}) :
                            LoopStep(RENTCAST, http, rows)
    /\ UNCHANGED <<config, upstream, center, DISCOVERED, providers,
                   deduped, filtered, result, raised>>
    /\ UNCHANGED <<filterVars, httpVars, discoverVars, providerVars, storeVars>>

\* aggregator.py:47-72, after the loop: dedupe, apply_filters, sort, return.
\* A ValueError of haversine_km inside filter_by_radius or sort_key is not
\* caught anywhere and leaves run_aggregation.
Finish ==
    /\ pc = "loop" /\ idx > Len(providers)
    /\ deduped' = dedupe(apartments)
    /\ LET f == apply_filters(deduped', config, Val(center))
       IN  IF f.k = "err" \/ \E i \in 1..Len(f.v) : sort_key(f.v[i], Val(center))[1].k = "err"
           THEN /\ raised' = "MathDomainError"
                /\ pc' = "raised"
                /\ UNCHANGED <<filtered, result>>
           ELSE /\ filtered' = f.v
                /\ result' = sort_by_key(f.v, Val(center))
                /\ pc' = "done"
                /\ raised' = raised
    /\ UNCHANGED <<config, upstream, center, resolve_log, DISCOVERED, providers,
                   idx, apartments, fetch_log>>
    /\ UNCHANGED <<filterVars, httpVars, discoverVars, providerVars, storeVars>>

Next == ResolveCenter \/ Discover \/ FetchNYC \/ FetchRentcast \/ Finish

-----------------------------------------------------------------------------
(* Initial states of a run *)

Apt(p, id, lat, lon, price, beds) ==
    [provider |-> p, id |-> id, lat |-> lat, lon |-> lon, price |-> price, beds |-> beds]

\* an upstream row as NYCHousingNewYorkBuildingsProvider._normalize maps it:
\* the dataset has no rent and no bedroom count (lines 121-122)
NycApt(id, lat, lon) == Apt(NYC, id, lat, lon, None, None)
RentcastApt(id, lat, lon, price, beds) == Apt(RENTCAST, id, lat, lon, price, beds)

At(lat, lon) == <<Some(Fin(lat)), Some(Fin(lon))>>

DefaultConfig ==
    [center_address |-> None, center_lat |-> Some(Fin(40)), center_lon |-> Some(Fin(-74)),
     radius_km |-> Fin(111), min_price |-> None, max_price |-> None,
     min_beds |-> None, max_beds |-> None, providers |-> <<>>, limit |-> None,
     rentcast_api_key |-> Some("key")]

FilterIdle == f_op = "idle" /\ f_in = <<>> /\ f_min = None /\ f_max = None /\ f_out = <<>>
HttpIdle ==
    /\ h_pc = "idle" /\ retries = 0 /\ attempt = 0 /\ last_exc = None
    /\ h_log = <<>> /\ h_sleeps = <<>> /\ h_result = None
DiscoverIdle ==
    d_pc = <<>> /\ d_names = <<>> /\ d_ret = <<>> /\ d_calls = <<>> /\ d_scans = 0
ProviderIdle ==
    p_pc = "idle" /\ p_provider = "" /\ p_raw = None /\ p_i = 0 /\ p_apartments = <<>>
StoreIdle == s_table = <<>> /\ s_now = 0 /\ s_log = <<>>

\* the state at the call of run_aggregation in a fresh process
RunStart ==
    /\ pc = "start" /\ center = None /\ resolve_log = <<>> /\ DISCOVERED = None
    /\ providers = <<>> /\ idx = 0 /\ apartments = <<>> /\ fetch_log = <<>>
    /\ deduped = <<>> /\ filtered = <<>> /\ result = <<>> /\ raised = "none"
    /\ FilterIdle /\ HttpIdle /\ DiscoverIdle /\ ProviderIdle /\ StoreIdle

\* every way of giving the center, the provider selection and the API key;
\* one good and one unusable row upstream
InitControl ==
    /\ \E lat \in {None, Some(Fin(40))}, lon \in {None, Some(Fin(-74))},
          addr \in {None, Some(""), Some("350 5th Ave")},
          names \in {<<>>, <<RENTCAST>>, <<RENTCAST, NYC>>, <<"zillow">>},
          key \in {None, Some("key")} :
        config = [DefaultConfig EXCEPT !.center_lat = lat, !.center_lon = lon,
                                       !.center_address = addr, !.providers = names,
                                       !.rentcast_api_key = key]
    /\ upstream = (NYC :> {NycApt("1", Some(Fin(40)), Some(Fin(-74))),
                           NycApt("2", Some(Inf), Some(Fin(-74)))}
                   @@ RENTCAST :> {RentcastApt("1", Some(Fin(41)), Some(Fin(-74)), Some(1), None)})

\* duplicate ids inside a provider and across providers
InitDedupe ==
    /\ config = DefaultConfig
    /\ upstream = (NYC :> {NycApt(id, Some(Fin(lat)), Some(Fin(-74))) :
                               id \in {"1", "2"}, lat \in {40, 41}}
                   @@ RENTCAST :> {RentcastApt(id, Some(Fin(40)), Some(Fin(-74)), Some(pr), None) :
                               id \in {"1", "2"}, pr \in {1, 2}})

\* listings without a coordinate, at the radius, beyond it, with a NaN
InitGeo ==
    /\ \E r \in {Fin(0), Fin(85), Fin(111), Inf} :
        config = [DefaultConfig EXCEPT !.radius_km = r]
    /\ upstream = (NYC :> ({NycApt("1", c[1], c[2]) :
                               c \in {<<None, None>>, <<Some(Fin(40)), None>>,
                                      <<None, Some(Fin(-74))>>,
                                      <<Some(NaN), Some(Fin(-74))>>}}
                           \cup {NycApt("2", c[1], c[2]) :
                               c \in {At(40, -74), At(41, -74), At(40, -73)}})
                   @@ RENTCAST :> {RentcastApt("1", Some(Fin(lat)), Some(Fin(-74)), Some(1), None) :
                               lat \in {41, 42}})

\* two distances, two prices and no price, equal keys under different ids
InitSort ==
    /\ config = [DefaultConfig EXCEPT !.radius_km = Fin(222)]
    /\ upstream = (NYC :> {NycApt(id, Some(Fin(40)), Some(Fin(-74))) : id \in {"1", "2"}}
                   @@ RENTCAST :> {RentcastApt(id, Some(Fin(lat)), Some(Fin(-74)), Some(pr), None) :
                               id \in {"1", "2"}, lat \in {40, 41}, pr \in {1, 2}})

\* limits of every sign with price and bed bounds; the first provider's
\* listings are the farther ones
InitLimit ==
    /\ \E lim \in {None, Some(-1), Some(0), Some(1), Some(2)},
          bounds \in {<<None, None>>, <<Some(2), Some(1)>>} :
        config = [DefaultConfig EXCEPT !.limit = lim, !.min_price = bounds[1],
                                       !.max_beds = bounds[2]]
    /\ upstream = (NYC :> {NycApt(id, Some(Fin(41)), Some(Fin(-74))) : id \in {"1", "2"}}
                   @@ RENTCAST :> {RentcastApt(id, Some(Fin(40)), Some(Fin(-74)), Some(pb[1]), Some(pb[2])) :
                               id \in {"1", "2"}, pb \in {<<1, 1>>, <<2, 1>>, <<2, 2>>}})

Init == RunStart /\ (InitControl \/ InitDedupe \/ InitGeo \/ InitSort \/ InitLimit)

Spec == Init /\ [][Next]_vars

-----------------------------------------------------------------------------
(* filter_by_price and filter_by_beds called on their own *)

\* no run_aggregation in progress
PipelineIdle ==
    /\ config = DefaultConfig /\ upstream = (NYC :> {} @@ RENTCAST :> {})
    /\ pc = "idle" /\ center = None /\ resolve_log = <<>> /\ DISCOVERED = None
    /\ providers = <<>> /\ idx = 0 /\ apartments = <<>> /\ fetch_log = <<>>
    /\ deduped = <<>> /\ filtered = <<>> /\ result = <<>> /\ raised = "none"

\* listings that differ in price and in bed count
FilterInputs ==
    {RentcastApt("1", None, None, pr, b) :
        pr \in {None, Some(1), Some(2), Some(3)}, b \in {None, Some(1), Some(3)}}

InitFilter ==
    /\ PipelineIdle /\ HttpIdle /\ DiscoverIdle /\ ProviderIdle /\ StoreIdle
    /\ f_op = "start" /\ f_out = <<>>
    /\ f_in \in SeqsUpTo(FilterInputs, MaxRows)
    /\ f_min \in {None, Some(2)}
    /\ f_max \in {None, Some(2), Some(3)}

ApplyFilterByPrice ==
    /\ f_op = "start"
    /\ f_out' = filter_by_price(f_in, f_min, f_max)
    /\ f_op' = "price"
    /\ UNCHANGED <<f_in, f_min, f_max, pipeVars, httpVars, discoverVars, providerVars, storeVars>>

ApplyFilterByBeds ==
    /\ f_op = "start"
    /\ f_out' = filter_by_beds(f_in, f_min, f_max)
    /\ f_op' = "beds"
    /\ UNCHANGED <<f_in, f_min, f_max, pipeVars, httpVars, discoverVars, providerVars, storeVars>>

NextFilter == ApplyFilterByPrice \/ ApplyFilterByBeds

SpecFilter == InitFilter /\ [][NextFilter]_vars

-----------------------------------------------------------------------------
(* http_client.py: fetch_json *)

MaxRetries == 3

\* backoff_factor, in milliseconds (the default 0.5 s)
BackoffMs == 500

RECURSIVE Pow2(_)
Pow2(n) == IF n <= 0 THEN 1 ELSE 2 * Pow2(n - 1)

\* what one pass through the try block can end in: "ok" (a 2xx response with
\* a JSON body), or the exception raised by session.get (transport),
\* raise_for_status (non-2xx) or response.json (a body that is not JSON)
AttemptOutcomes == {"ok", "ConnectionError", "HTTPError", "JSONDecodeError"}

\* `while attempt < retries`
loop_condition_le(a, r) == a <= r
loop_condition(a, r) == a < r

\* the state after lines 46-48 of a call fetch_json(url, retries=r)
InitHttp ==
    /\ PipelineIdle /\ FilterIdle /\ DiscoverIdle /\ ProviderIdle /\ StoreIdle
    /\ h_pc = "loop" /\ retries \in (-1)..MaxRetries
    /\ attempt = 0 /\ last_exc = None
    /\ h_log = <<>> /\ h_sleeps = <<>> /\ h_result = None

\* one iteration of the while loop (lines 50-60)
HttpAttempt ==
    /\ h_pc = "loop" /\ loop_condition(attempt, retries)
    /\ \E outcome \in AttemptOutcomes :
        LET n == Len(h_log) + 1
        IN  /\ h_log' = Append(h_log, outcome)
            /\ IF outcome = "ok"
               THEN /\ h_result' = Some([k |-> "return", kind |-> "json", n |-> n])
                    /\ h_pc' = "returned"
                    /\ UNCHANGED <<attempt, last_exc, h_sleeps>>
               ELSE /\ last_exc' = Some([kind |-> outcome, n |-> n])
                    /\ attempt' = attempt + 1
                    /\ h_sleeps' = Append(h_sleeps, BackoffMs * Pow2(attempt' - 1))
                    /\ UNCHANGED <<h_pc, h_result>>
    /\ UNCHANGED <<retries, pipeVars, filterVars, discoverVars, providerVars, storeVars>>

\* lines 62-63, after the loop: the assertion, then raise last_exc
HttpGiveUp ==
    /\ h_pc = "loop" /\ ~loop_condition(attempt, retries)
    /\ IF IsNone(last_exc)
       THEN /\ h_pc' = "assertion_failed"
            /\ h_result' = Some([k |-> "raise", kind |-> "AssertionError", n |-> 0])
       ELSE /\ h_pc' = "raised"
            /\ h_result' = Some([k |-> "raise", kind |-> Val(last_exc).kind, n |-> Val(last_exc).n])
    /\ UNCHANGED <<retries, attempt, last_exc, h_log, h_sleeps, pipeVars, filterVars,
                   discoverVars, providerVars, storeVars>>

NextHttp == HttpAttempt \/ HttpGiveUp

SpecHttp == InitHttp /\ [][NextHttp]_vars

-----------------------------------------------------------------------------
(* providers/base.py: discover_providers called by concurrent callers *)

\* bound on the number of discover_providers calls, over all callers
MaxCalls == 3

Callers == {"t1", "t2"}

EnabledNames == {<<>>, <<RENTCAST, NYC>>, <<"zillow">>, <<"zillow", NYC>>}

pipeVarsButDiscovered ==
    <<config, upstream, pc, center, resolve_log, providers, idx, apartments,
      fetch_log, deduped, filtered, result, raised>>

\* a fresh process: _DISCOVERED is None (line 51), no call made yet
InitDiscover ==
    /\ PipelineIdle /\ FilterIdle /\ HttpIdle /\ ProviderIdle /\ StoreIdle
    /\ d_pc = [t \in Callers |-> "idle"]
    /\ d_names = [t \in Callers |-> <<>>]
    /\ d_ret = [t \in Callers |-> None]
    /\ d_calls = <<>> /\ d_scans = 0

CallsStarted ==
    Cardinality({i \in 1..Len(d_calls) : d_calls[i].op = "return"})
    + Cardinality({t \in Callers : d_pc[t] # "idle"})

\* a caller enters discover_providers(names) and tests `_DISCOVERED is None`
\* (line 62)
DiscoverCall ==
    /\ \E t \in Callers :
        /\ d_pc[t] = "idle" /\ CallsStarted < MaxCalls
        /\ \E names \in EnabledNames : d_names' = [d_names EXCEPT ![t] = names]
        /\ d_pc' = [d_pc EXCEPT ![t] = IF IsNone(DISCOVERED) THEN "scan" ELSE "select"]
        /\ d_ret' = [d_ret EXCEPT ![t] = None]
    /\ UNCHANGED <<d_calls, d_scans, DISCOVERED>>
    /\ UNCHANGED <<pipeVarsButDiscovered, filterVars, httpVars, providerVars, storeVars>>

\* line 63: _DISCOVERED = _iter_provider_classes(), by a caller that saw None
DiscoverScan ==
    /\ \E t \in Callers :
        /\ d_pc[t] = "scan"
        /\ d_pc' = [d_pc EXCEPT ![t] = "select"]
    /\ DISCOVERED' = Some(iter_provider_classes)
    /\ d_scans' = d_scans + 1
    /\ UNCHANGED <<d_names, d_ret, d_calls>>
    /\ UNCHANGED <<pipeVarsButDiscovered, filterVars, httpVars, providerVars, storeVars>>

\* lines 65-69: read _DISCOVERED, build the list and return it
DiscoverReturn ==
    /\ \E t \in Callers :
        /\ d_pc[t] = "select"
        /\ LET r == returned_list(d_names[t], Val(DISCOVERED))
           IN  /\ d_ret' = [d_ret EXCEPT ![t] = Some(r)]
               /\ d_calls' = Append(d_calls,
                                    [op |-> "return", caller |-> t, names |-> d_names[t],
                                     ret |-> r.v, cache |-> Val(DISCOVERED)])
        /\ d_pc' = [d_pc EXCEPT ![t] = "idle"]
    /\ UNCHANGED <<d_names, d_scans, DISCOVERED>>
    /\ UNCHANGED <<pipeVarsButDiscovered, filterVars, httpVars, providerVars, storeVars>>

\* what a caller can do to the list it was given: clear it, or append to it
Modified(v) == (IF v = <<>> THEN {} ELSE {<<>>}) \cup {Append(v, "injected")}

\* a caller modifies the list its call returned, then lets go of it; a list
\* shared with _DISCOVERED is the same object
CallerModifies ==
    /\ \E t \in Callers :
        /\ d_pc[t] = "idle" /\ ~IsNone(d_ret[t])
        /\ \E v \in Modified(Val(d_ret[t]).v) :
            DISCOVERED' = IF Val(d_ret[t]).shared THEN Some(v) ELSE DISCOVERED
        /\ d_ret' = [d_ret EXCEPT ![t] = None]
        /\ d_calls' = Append(d_calls, [op |-> "modify", caller |-> t, names |-> d_names[t],
                                       ret |-> <<>>, cache |-> <<>>])
    /\ UNCHANGED <<d_pc, d_names, d_scans>>
    /\ UNCHANGED <<pipeVarsButDiscovered, filterVars, httpVars, providerVars, storeVars>>

NextDiscover == DiscoverCall \/ DiscoverScan \/ DiscoverReturn \/ CallerModifies

SpecDiscover == InitDiscover /\ [][NextDiscover]_vars

-----------------------------------------------------------------------------
(* providers/nyc_open_data_hny_buildings.py, providers/rentcast_rental_listings.py:
   fetch after fetch_json has returned, and _normalize.

   A decoded JSON value is a record [j, n, s]: j = "absent" for a key that is
   missing or null (data.get gives None for both), "num" for a number with
   its value in tenths in n (JNum(-55) is -5.5), "str" for a string with its
   text in s, "list" for a nested array.  A row of the response is a record
   of the keys _normalize reads: id, latitude, longitude, price, and text
   for the text keys (project_name, formattedAddress, city, ...). *)

JAbsent == [j |-> "absent", n |-> 0, s |-> ""]
JNum(t) == [j |-> "num", n |-> t, s |-> ""]
JStr(s) == [j |-> "str", n |-> 0, s |-> s]
JList == [j |-> "list", n |-> 0, s |-> ""]

\* Python truthiness of a decoded value, as `x or y` tests it
Truthy(x) ==
    \/ x.j = "num" /\ x.n # 0
    \/ x.j = "str" /\ x.s # ""
    \/ x.j = "list"

Raises(kind) == [k |-> kind, v |-> 0]

\* float(s) of the strings that are numbers, in tenths
FloatOfText ==
    ("40" :> Fin(400)) @@ ("41" :> Fin(410)) @@ ("-74" :> Fin(-740)) @@ ("1200.5" :> Fin(12005))
    @@ ("-5.5" :> Fin(-55)) @@ ("Infinity" :> Inf) @@ ("nan" :> NaN)

\* float(x): the float in tenths, or the exception raised
float_of(x) ==
    IF x.j = "num" THEN Fin(x.n)
    ELSE IF x.j = "str"
         THEN (IF x.s \in DOMAIN FloatOfText THEN FloatOfText[x.s] ELSE Raises("ValueError"))
    ELSE Raises("TypeError")

\* int(f) of a float in tenths: truncation toward zero, OverflowError for
\* an infinity, ValueError for NaN
int_of(f) ==
    IF f.k = "inf" THEN Raises("OverflowError")
    ELSE IF f.k = "nan" THEN Raises("ValueError")
    ELSE [k |-> "int", v |-> IF f.v >= 0 THEN f.v \div 10 ELSE -((-f.v) \div 10)]

\* a float in tenths as a float of the model (whole degrees, whole bedrooms)
Whole(f) == IF f.k = "fin" THEN Fin(f.v \div 10) ELSE f

\* the id of a row whose id key is a string or missing: str(a or b or ... or ""),
\* then the fallbacks of nyc_open_data_hny_buildings.py:61-71 /
\* rentcast_rental_listings.py:92-100 with no address key in the row
listing_id(raw_id) == IF raw_id.j = "str" /\ raw_id.s # "" THEN raw_id.s ELSE "unknown-id"

\* lat and lon as both _normalize compute them: both converted with float()
\* when both keys are there, and both None when either conversion raises
\* TypeError or ValueError
coordinates(latitude, longitude) ==
    IF latitude.j = "absent" \/ longitude.j = "absent" THEN <<None, None>>
    ELSE LET lat == float_of(latitude)
             lon == float_of(longitude)
         IN  IF lat.k \in {"TypeError", "ValueError"} \/ lon.k \in {"TypeError", "ValueError"}
             THEN <<None, None>>
             ELSE <<Some(Whole(lat)), Some(Whole(lon))>>

\* NYCHousingNewYorkBuildingsProvider._normalize(data): title and neighborhood
\* are passed as they come (lines 110, 115) and Apartment rejects a value
\* that is not a string with a ValidationError; price and beds are None
normalize_nyc(data) ==
    IF Truthy(data.text) /\ data.text.j # "str" THEN Raises("ValidationError")
    ELSE LET c == coordinates(data.latitude, data.longitude)
         IN  [k |-> "ok", v |-> [provider |-> NYC, id |-> listing_id(data.id),
                                 lat |-> c[1], lon |-> c[2], price |-> None, beds |-> None]]

\* price_val of rentcast_rental_listings.py:131-136: int(float(data["price"]))
\* with TypeError and ValueError caught; any other exception leaves _normalize
price_val(price) ==
    IF price.j = "absent" THEN [k |-> "ok", v |-> None]
    ELSE LET f == float_of(price)
             i == IF f.k \in {"TypeError", "ValueError"} THEN f ELSE int_of(f)
         IN  IF i.k \in {"TypeError", "ValueError"} THEN [k |-> "ok", v |-> None]
             ELSE IF i.k = "int" THEN [k |-> "ok", v |-> Some(i.v)]
             ELSE i

\* RentcastLongTermRentalProvider._normalize(data): .strip() on a text value
\* that is not a string raises AttributeError (lines 103-106, 153-154); a row
\* has no bedrooms key, so beds_val keeps the None of line 138
normalize_rentcast(data) ==
    IF Truthy(data.text) /\ data.text.j # "str" THEN Raises("AttributeError")
    ELSE LET c == coordinates(data.latitude, data.longitude)
             pr == price_val(data.price)
         IN  IF pr.k # "ok" THEN pr
             ELSE [k |-> "ok", v |-> [provider |-> RENTCAST, id |-> listing_id(data.id),
                                      lat |-> c[1], lon |-> c[2], price |-> pr.v,
                                      beds |-> None]]

normalize(provider, data) ==
    IF provider = NYC THEN normalize_nyc(data) ELSE normalize_rentcast(data)

\* row_step without the try/except around _normalize: the exception of a
\* row leaves fetch
row_step_unguarded(provider, item, apts) ==
    IF item.kind # "dict" THEN [k |-> "continue", v |-> apts]
    ELSE LET r == normalize(provider, item)
         IN  IF r.k = "ok" THEN [k |-> "continue", v |-> Append(apts, r.v)]
             ELSE [k |-> "raise", v |-> apts]

\* one iteration of the loop over raw (nyc 40-47, rentcast 72-79): an item
\* that is not a dict is passed over, and so is a row whose _normalize
\* raises any Exception
row_step(provider, item, apts) ==
    IF item.kind # "dict" THEN [k |-> "continue", v |-> apts]
    ELSE LET r == normalize(provider, item)
         IN  IF r.k = "ok" THEN [k |-> "continue", v |-> Append(apts, r.v)]
             ELSE [k |-> "continue", v |-> apts]

\* bound on the number of items of a response
MaxItems == 3

Row(id, latitude, longitude, price, text) ==
    [kind |-> "dict", id |-> id, latitude |-> latitude, longitude |-> longitude,
     price |-> price, text |-> text]

\* an item of the response that is not an object (a string, a number, null)
Scalar ==
    [kind |-> "scalar", id |-> JAbsent, latitude |-> JAbsent, longitude |-> JAbsent,
     price |-> JAbsent, text |-> JAbsent]

\* the items a response can hold: a clean row, rows with a negative, a
\* non-numeric, an infinite and a nested price, with coordinates that do not
\* parse or are infinite, without id, with a number where text is expected
ResponseItems ==
    {Scalar,
     Row(JStr("1"), JNum(400), JNum(-740), JStr("1200.5"), JStr("350 5th Ave")),
     Row(JStr("2"), JStr("41"), JStr("-74"), JNum(-55), JAbsent),
     Row(JStr("3"), JStr("abc"), JNum(-740), JStr("abc"), JAbsent),
     Row(JStr("4"), JNum(400), JNum(-740), JStr("Infinity"), JAbsent),
     Row(JStr("5"), JNum(400), JNum(-740), JAbsent, JNum(70)),
     Row(JAbsent, JStr("Infinity"), JNum(-740), JList, JAbsent)}

\* what fetch_json can return: an array of items, or a JSON value that is
\* not an array (an error object, null)
Responses ==
    {[kind |-> "list", items |-> items] : items \in SeqsUpTo(ResponseItems, MaxItems)}
    \cup {[kind |-> "object", items |-> <<>>], [kind |-> "null", items |-> <<>>]}

\* fetch of either provider at the moment fetch_json has returned `raw`
\* (nyc line 35, rentcast line 67)
InitProviderFetch ==
    /\ PipelineIdle /\ FilterIdle /\ HttpIdle /\ DiscoverIdle /\ StoreIdle
    /\ p_pc = "response" /\ p_provider \in {NYC, RENTCAST}
    /\ p_raw \in Responses
    /\ p_i = 0 /\ p_apartments = <<>>

\* `if not isinstance(raw, list): return []` (nyc 36-37, rentcast 68-69),
\* then `apartments = []`
FetchCheckResponse ==
    /\ p_pc = "response"
    /\ p_pc' = IF p_raw.kind # "list" THEN "returned" ELSE "rows"
    /\ p_i' = 1 /\ p_apartments' = <<>>
    /\ UNCHANGED <<p_provider, p_raw>>
    /\ UNCHANGED <<pipeVars, filterVars, httpVars, discoverVars, storeVars>>

\* one iteration of `for item in raw`
FetchRow ==
    /\ p_pc = "rows" /\ p_i <= Len(p_raw.items)
    /\ LET step == row_step(p_provider, p_raw.items[p_i], p_apartments)
       IN  /\ p_apartments' = step.v
           /\ p_pc' = IF step.k = "raise" THEN "raised" ELSE "rows"
    /\ p_i' = p_i + 1
    /\ UNCHANGED <<p_provider, p_raw>>
    /\ UNCHANGED <<pipeVars, filterVars, httpVars, discoverVars, storeVars>>

\* `return apartments` (nyc 49, rentcast 81)
FetchReturn ==
    /\ p_pc = "rows" /\ p_i > Len(p_raw.items)
    /\ p_pc' = "returned"
    /\ UNCHANGED <<p_provider, p_raw, p_i, p_apartments>>
    /\ UNCHANGED <<pipeVars, filterVars, httpVars, discoverVars, storeVars>>

NextProviderFetch == FetchCheckResponse \/ FetchRow \/ FetchReturn

SpecProviderFetch == InitProviderFetch /\ [][NextProviderFetch]_vars

-----------------------------------------------------------------------------
(* storage/sqlite_store.py: table apartments with PRIMARY KEY (provider, id)
   is a function from keys to first_seen_ts *)

\* bound on the clock, in seconds
MaxTime == 2

\* INSERT OR REPLACE: the row of a recorded key is written again
insert_or_replace(table, key, ts) == (key :> ts) @@ table

\* INSERT OR IGNORE INTO apartments (provider, id, first_seen_ts): a key that
\* is in the table already leaves its row as it is
insert_or_ignore(table, key, ts) ==
    IF key \in DOMAIN table THEN table ELSE table @@ (key :> ts)

RECURSIVE executemany(_, _, _)
\* conn.executemany over the rows (apt.provider, apt.id, ts), in list order
executemany(table, apts, ts) ==
    IF apts = <<>> THEN table
    ELSE executemany(insert_or_ignore(table, Key(Head(apts)), ts), Tail(apts), ts)

\* the table after upsert_apartments(db_path, apts) at time ts
upsert_apartments(table, apts, ts) ==
    IF apts = <<>> THEN table ELSE executemany(table, apts, ts)

\* new_apts of get_new_since_last_run: the listings whose SELECT finds no row
new_apts(table, apts) == SelectSeq(apts, LAMBDA apt : Key(apt) \notin DOMAIN table)

\* the lists passed to the store: listings under two keys, two different
\* listings under one of them, alone, together and in both orders
StoreInputs ==
    LET n1 == NycApt("1", None, None)
        r1 == RentcastApt("1", None, None, Some(1), None)
        r1b == RentcastApt("1", None, None, Some(2), None)
    IN  {<<>>, <<n1>>, <<r1>>, <<r1b>>, <<n1, r1>>, <<r1b, n1>>, <<r1, r1b>>, <<r1, n1, r1b>>}

KeysOf(apts) == {Key(apts[i]) : i \in 1..Len(apts)}

\* the keys passed to the store by the calls made so far
SeenSoFar ==
    IF s_log = <<>> THEN {}
    ELSE s_log[Len(s_log)].seen \cup KeysOf(s_log[Len(s_log)].input)

\* s_log keeps the last two calls
LogCall(entry) ==
    IF s_log = <<>> THEN <<entry>> ELSE <<s_log[Len(s_log)], entry>>

\* a new database file: _get_connection creates the empty table
InitStore ==
    /\ PipelineIdle /\ FilterIdle /\ HttpIdle /\ DiscoverIdle /\ ProviderIdle
    /\ s_table = <<>> /\ s_now = 0 /\ s_log = <<>>

\* upsert_apartments(db_path, apts), the clock read at line 38
UpsertApartments ==
    /\ \E apts \in StoreInputs, tick \in {0, 1} :
        /\ s_now + tick <= MaxTime
        /\ s_now' = s_now + tick
        /\ s_table' = upsert_apartments(s_table, apts, s_now')
        /\ s_log' = LogCall([op |-> "upsert", input |-> apts, out |-> <<>>,
                             before |-> s_table, after |-> s_table', seen |-> SeenSoFar])
    /\ UNCHANGED <<pipeVars, filterVars, httpVars, discoverVars, providerVars>>

\* get_new_since_last_run(db_path, apts): the SELECT of every listing, then
\* upsert_apartments(db_path, new_apts) (line 71), then return new_apts
GetNewSinceLastRun ==
    /\ \E apts \in StoreInputs, tick \in {0, 1} :
        /\ s_now + tick <= MaxTime
        /\ s_now' = s_now + tick
        /\ LET new == IF apts = <<>> THEN <<>> ELSE new_apts(s_table, apts)
           IN  /\ s_table' = upsert_apartments(s_table, new, s_now')
               /\ s_log' = LogCall([op |-> "get_new", input |-> apts, out |-> new,
                                    before |-> s_table, after |-> s_table',
                                    seen |-> SeenSoFar])
    /\ UNCHANGED <<pipeVars, filterVars, httpVars, discoverVars, providerVars>>

NextStore == UpsertApartments \/ GetNewSinceLastRun

SpecStore == InitStore /\ [][NextStore]_vars

-----------------------------------------------------------------------------
(* Properties of run_aggregation *)

\* the run has left the provider loop and run the code after it
AfterLoop == pc = "done" \/ (pc = "raised" /\ raised = "MathDomainError")

RaisedEntries == {i \in 1..Len(fetch_log) : fetch_log[i].outcome = "raised"}

RECURSIVE ConcatRows(_)
\* the rows of the fetches that returned, in fetch order
ConcatRows(log) ==
    IF log = <<>> THEN <<>>
    ELSE (IF Head(log).outcome = "ok" THEN Head(log).rows ELSE <<>>) \o ConcatRows(Tail(log))

\* the indices of s that hold the first listing with their key
FirstOccurrences(s) ==
    {i \in 1..Len(s) : \A j \in 1..(i - 1) : Key(s[j]) # Key(s[i])}

\* t is s restricted to the indices in I, in the order of s
IsRestriction(t, s, I) ==
    /\ Len(t) = Cardinality(I)
    /\ \A i \in I : t[Cardinality({j \in I : j <= i})] = s[i]

\* C1: when a provider's fetch raises, the error is caught: the provider adds
\* no listing, the loop goes on to every later provider of the discovered
\* sequence, whose listings reach dedupe, and the error does not leave
\* run_aggregation (the run is not ended inside the loop).
C1_FetchFailureIsolated ==
    (RaisedEntries # {}) =>
        /\ pc \in {"loop", "done", "raised"}
        /\ pc = "raised" => AfterLoop
        /\ apartments = ConcatRows(fetch_log)
        /\ \A i \in 1..Len(fetch_log) : fetch_log[i].provider = providers[i]
        /\ idx = Len(fetch_log) + 1
        /\ AfterLoop =>
            /\ Len(fetch_log) = Len(providers)
            /\ deduped = dedupe(ConcatRows(fetch_log))
        /\ pc = "done" =>
            \A i \in 1..Len(result) :
                \E j \in 1..Len(fetch_log) :
                    /\ fetch_log[j].outcome = "ok"
                    /\ result[i] \in SeqToSet(fetch_log[j].rows)

\* the first of two providers raised, the second returned listings that are
\* in the result
C1_Witness ==
    /\ pc = "done" /\ Len(fetch_log) = 2
    /\ fetch_log[1].outcome = "raised"
    /\ fetch_log[2].outcome = "ok" /\ fetch_log[2].rows # <<>>
    /\ result # <<>>

\* C2: only the two center-resolution errors leave run_aggregation, and they
\* leave it from the center resolution of its first line; no failure that
\* comes from a provider makes run_aggregation raise.
C2_OnlyCenterErrorsPropagate ==
    /\ raised \in {"none", "ConfigurationError", "ResolutionError"}
    /\ pc = "raised" => fetch_log = <<>>

\* C3: deduped holds, for every (provider, id) key of the concatenated
\* results, the first listing with that key and no other, in concatenation
\* order; no two listings of the result share a key.
C3_DedupeFirstWins ==
    AfterLoop =>
        /\ IsRestriction(deduped, apartments, FirstOccurrences(apartments))
        /\ \A i, j \in 1..Len(deduped) : i # j => Key(deduped[i]) # Key(deduped[j])
        /\ pc = "done" =>
            \A i, j \in 1..Len(result) : i # j => Key(result[i]) # Key(result[j])

\* a later listing with the key of an earlier, different one was dropped, and
\* two listings with one id from two providers are both in the result
C3_Witness ==
    /\ pc = "done"
    /\ \E i, j \in 1..Len(apartments) :
        /\ i < j /\ Key(apartments[i]) = Key(apartments[j]) /\ apartments[i] # apartments[j]
        /\ apartments[i] \in SeqToSet(result)
        /\ apartments[j] \notin SeqToSet(result)
    /\ \E i, j \in 1..Len(result) :
        result[i].id = result[j].id /\ result[i].provider # result[j].provider

\* the distance of a listing from the resolved center, and its price, as the
\* floats the claims compare
DistanceOf(apt) ==
    IF IsNone(apt.lat) \/ IsNone(apt.lon) THEN Inf
    ELSE haversine_km(Val(center).lat, Val(center).lon, Val(apt.lat), Val(apt.lon))
PriceOf(apt) == IF IsNone(apt.price) THEN Inf ELSE Fin(Val(apt.price))

\* C4: every listing of the result has both coordinates and lies within
\* config.radius_km of the center, the boundary included; a listing without
\* a coordinate is never in the result, whatever the radius.
C4_ResultWithinRadius ==
    pc = "done" =>
        \A i \in 1..Len(result) :
            /\ ~IsNone(result[i].lat) /\ ~IsNone(result[i].lon)
            /\ DistanceOf(result[i]).k = "fin"
            /\ \/ config.radius_km.k = "inf"
               \/ config.radius_km.k = "fin" /\ DistanceOf(result[i]).v <= config.radius_km.v

\* a listing exactly at the radius is in the result; one without a
\* coordinate and one with a NaN or farther coordinate were dropped
C4_Witness ==
    /\ pc = "done" /\ config.radius_km.k = "fin" /\ config.radius_km.v > 0
    /\ \E i \in 1..Len(result) : DistanceOf(result[i]) = config.radius_km
    /\ \E i \in 1..Len(deduped) :
        /\ IsNone(deduped[i].lat) \/ IsNone(deduped[i].lon)
        /\ deduped[i] \notin SeqToSet(result)
    /\ \E i \in 1..Len(deduped) :
        /\ ~IsNone(deduped[i].lat) /\ ~IsNone(deduped[i].lon)
        /\ deduped[i] \notin SeqToSet(result)

\* the key of a is below, or equal to, the key of b in the order
\* (distance, price) with a missing value counted as infinite
KeyBelow(a, b) ==
    \/ FloatLess(DistanceOf(a), DistanceOf(b))
    \/ FloatEq(DistanceOf(a), DistanceOf(b)) /\ FloatLess(PriceOf(a), PriceOf(b))
KeySame(a, b) ==
    FloatEq(DistanceOf(a), DistanceOf(b)) /\ FloatEq(PriceOf(a), PriceOf(b))

PositionIn(s, x) == CHOOSE i \in 1..Len(s) : s[i] = x

IsPermutation(t, s) ==
    /\ Len(t) = Len(s)
    /\ \A i \in 1..Len(s) :
        Cardinality({j \in 1..Len(s) : s[j] = s[i]}) = Cardinality({j \in 1..Len(t) : t[j] = s[i]})

\* C5: the result is the filtered list reordered by non-decreasing
\* (distance, price), a missing price counted as infinite; listings with
\* equal keys keep the order they had after the filter step.
C5_ResultSortedStable ==
    pc = "done" =>
        /\ IsPermutation(result, filtered)
        /\ \A i, j \in 1..Len(result) :
            i < j =>
                /\ KeyBelow(result[i], result[j]) \/ KeySame(result[i], result[j])
                /\ KeySame(result[i], result[j]) =>
                    PositionIn(filtered, result[i]) < PositionIn(filtered, result[j])

\* in one result: a nearer listing with a higher price before a farther one
\* with a lower price, a listing without price after a priced one at the same
\* distance, two listings with the same key, and an order that the sort changed
C5_Witness ==
    /\ pc = "done" /\ result # filtered
    /\ \E i, j \in 1..Len(result) :
        /\ i < j /\ FloatLess(DistanceOf(result[i]), DistanceOf(result[j]))
        /\ FloatLess(PriceOf(result[j]), PriceOf(result[i]))
    /\ \E i, j \in 1..Len(result) :
        /\ i < j /\ FloatEq(DistanceOf(result[i]), DistanceOf(result[j]))
        /\ ~IsNone(result[i].price) /\ IsNone(result[j].price)
    /\ \E i, j \in 1..Len(result) : i < j /\ KeySame(result[i], result[j])

\* a listing passes the radius, price and bed predicates of the configuration
InBounds(value, min, max) ==
    \/ IsNone(value)
    \/ /\ IsNone(min) \/ Val(min) <= Val(value)
       /\ IsNone(max) \/ Val(value) <= Val(max)
PassesAll(apt) ==
    /\ ~IsNone(apt.lat) /\ ~IsNone(apt.lon)
    /\ FloatLeq(DistanceOf(apt), config.radius_km)
    /\ InBounds(apt.price, config.min_price, config.max_price)
    /\ InBounds(apt.beds, config.min_beds, config.max_beds)

\* the deduplicated listings that pass all three predicates, in concatenation order
PassingListings == SelectSeq(deduped, PassesAll)

LimitCount ==
    IF ~IsNone(config.limit) /\ Val(config.limit) > 0 /\ Val(config.limit) < Len(PassingListings)
    THEN Val(config.limit)
    ELSE Len(PassingListings)

\* C6: with F the deduplicated listings that pass the radius, price and bed
\* predicates, in concatenation order, the list handed to the sort is the
\* first min(N, |F|) listings of F for a positive limit N and all of F
\* otherwise, and the result is that list reordered.
C6_LimitBeforeSort ==
    pc = "done" =>
        /\ filtered = SubSeq(PassingListings, 1, LimitCount)
        /\ IsPermutation(result, filtered)
        /\ Len(result) = LimitCount

\* a limit of 1 cut F, and a listing of F that was cut is nearer than the
\* one returned
C6_Witness ==
    /\ pc = "done" /\ config.limit = Some(1) /\ Len(PassingListings) > 1
    /\ Len(PassingListings) < Len(deduped)
    /\ \E i \in 1..Len(PassingListings) :
        FloatLess(DistanceOf(PassingListings[i]), DistanceOf(result[1]))

Count(s, x) == Cardinality({j \in 1..Len(s) : s[j] = x})

\* C14: every listing of the result is, field for field, a listing that a
\* fetch of this run returned, and is in the result no more often than in
\* the concatenated fetch results; no step of the run changes the
\* configuration.
C14_PipelineOnlySelects ==
    /\ [](pc = "done" =>
            \A i \in 1..Len(result) :
                /\ result[i] \in SeqToSet(ConcatRows(fetch_log))
                /\ Count(result, result[i]) <= Count(ConcatRows(fetch_log), result[i]))
    /\ [][config' = config]_vars

\* one run dropped a duplicate, cut the list at the limit under price and bed
\* bounds, and reordered what was left
C14_Witness ==
    /\ pc = "done" /\ result # <<>> /\ result # filtered
    /\ Len(deduped) < Len(apartments) /\ Len(result) < Len(deduped)
    /\ ~IsNone(config.limit)

BothCoordinates == ~IsNone(config.center_lat) /\ ~IsNone(config.center_lon)
HasAddress == ~IsNone(config.center_address) /\ Val(config.center_address) # ""

\* C8: every resolve_center call geocodes exactly when the configuration
\* lacks a coordinate and has an address; with both coordinates it returns
\* them; with neither it raises the configuration error; with an address and
\* no match it raises the resolution error.
C8_ResolveCenterCases ==
    \A i \in 1..Len(resolve_log) :
        LET e == resolve_log[i]
        IN  /\ e.geocoded <=> (~BothCoordinates /\ HasAddress)
            /\ BothCoordinates =>
                /\ e.outcome = "ok"
                /\ e.loc = Some(Location(Val(config.center_lat), Val(config.center_lon)))
            /\ (~BothCoordinates /\ ~HasAddress) => e.outcome = "ConfigurationError"
            /\ (e.geocoded /\ IsNone(e.answer)) => e.outcome = "ResolutionError"
            /\ (e.geocoded /\ ~IsNone(e.answer)) => (e.outcome = "ok" /\ e.loc = e.answer)

\* both coordinates and an address are configured and the center was
\* resolved without geocoding
C8_Witness ==
    /\ BothCoordinates /\ HasAddress
    /\ Len(resolve_log) = 1 /\ ~resolve_log[1].geocoded
    /\ pc = "discover" /\ center = Some(Location(Val(config.center_lat), Val(config.center_lon)))

\* C9: a failed center resolution ends the run with that error before
\* anything was discovered or fetched, and a fetch happens only after the
\* run's own center resolution has succeeded.
C9_CenterFirstFailFast ==
    /\ raised \in {"ConfigurationError", "ResolutionError"} =>
        /\ pc = "raised"
        /\ IsNone(DISCOVERED) /\ providers = <<>> /\ fetch_log = <<>>
        /\ Len(resolve_log) = 1
    /\ (pc \in {"discover", "loop", "done"} \/ ~IsNone(DISCOVERED) \/ fetch_log # <<>>) =>
        /\ ~IsNone(center)
        /\ resolve_log[1].by = "run_aggregation" /\ resolve_log[1].outcome = "ok"
    /\ (pc = "raised" /\ raised \notin {"ConfigurationError", "ResolutionError"}) =>
        resolve_log[1].outcome = "ok"

\* the geocoder found no match and the run ended with the resolution error
C9_Witness ==
    /\ pc = "raised" /\ raised = "ResolutionError"
    /\ resolve_log[1].geocoded /\ fetch_log = <<>>

-----------------------------------------------------------------------------
(* Properties of the filters *)

\* C7: filter_by_price (filter_by_beds for the bed count) keeps exactly the
\* listings whose value is absent or within the configured bounds, both
\* bounds inclusive and an absent bound unbounded, in the input's order.
C7_FilterKeepsInBounds ==
    /\ f_op = "price" =>
        IsRestriction(f_out, f_in,
                      {i \in 1..Len(f_in) : InBounds(f_in[i].price, f_min, f_max)})
    /\ f_op = "beds" =>
        IsRestriction(f_out, f_in,
                      {i \in 1..Len(f_in) : InBounds(f_in[i].beds, f_min, f_max)})

\* with both bounds set to the same number the price filter kept a listing
\* priced at the bounds and dropped another one
C7_Witness ==
    /\ f_op = "price" /\ f_min = Some(2) /\ f_max = Some(2)
    /\ Len(f_in) = 2 /\ Len(f_out) = 1
    /\ f_out[1].price = Some(2)

-----------------------------------------------------------------------------
(* Properties of fetch_json *)

Failures(log) == {i \in 1..Len(log) : log[i] # "ok"}

\* C10: with retries >= 1 a call makes at most `retries` attempts and goes on
\* after every failed one while attempts remain; it returns the JSON value of
\* its first successful attempt, which is its last attempt; after `retries`
\* failed attempts it raises the error of the last attempt.
C10_RetryUntilExhausted ==
    (h_pc # "idle" /\ retries >= 1) =>
        /\ Len(h_log) <= retries
        /\ \A i \in 1..(Len(h_log) - 1) : h_log[i] # "ok"
        /\ (h_log # <<>> /\ h_log[Len(h_log)] # "ok" /\ Len(h_log) < retries) => h_pc = "loop"
        /\ h_pc = "returned" <=> (h_log # <<>> /\ h_log[Len(h_log)] = "ok")
        /\ h_pc = "returned" =>
            h_result = Some([k |-> "return", kind |-> "json", n |-> Len(h_log)])
        /\ h_pc \in {"raised", "assertion_failed"} =>
            /\ h_pc = "raised"
            /\ Len(h_log) = retries /\ Failures(h_log) = 1..retries
            /\ h_result = Some([k |-> "raise", kind |-> h_log[retries], n |-> retries])

\* three attempts failed, the last one differently from the first, and the
\* call raised
C10_Witness ==
    /\ h_pc = "raised" /\ retries = 3 /\ Len(h_log) = 3
    /\ h_log[1] # h_log[3]

\* the call has ended by raising after the loop
GaveUp == h_pc \in {"raised", "assertion_failed"}

\* C11: the k-th sleep of a call lasts backoff_factor * 2^(k-1) and comes
\* after failed attempt k; a sleep happens only between two attempts, so a
\* call that raises after Len(h_log) failed attempts has slept
\* Len(h_log) - 1 times.
C11_SleepsOnlyBetweenAttempts ==
    (h_pc # "idle" /\ retries >= 1) =>
        /\ \A k \in 1..Len(h_sleeps) :
            /\ h_sleeps[k] = BackoffMs * Pow2(k - 1)
            /\ k <= Len(h_log) /\ h_log[k] # "ok"
        /\ GaveUp => Len(h_sleeps) = Len(h_log) - 1

\* C12: an attempt whose 2xx body is not JSON is the last attempt of the
\* call: no sleep and no attempt follows it, and the call raises that error.
C12_MalformedJsonNotRetried ==
    \A i \in 1..Len(h_log) :
        h_log[i] = "JSONDecodeError" =>
            /\ i = Len(h_log)
            /\ Len(h_sleeps) < i
            /\ h_pc = "raised"
            /\ h_result = Some([k |-> "raise", kind |-> "JSONDecodeError", n |-> i])

\* C18: for every value of retries the assertion after the loop holds: a
\* call that ends without a JSON value raises an error observed on one of
\* its attempts.
C18_AssertionHolds ==
    /\ h_pc # "assertion_failed"
    /\ h_pc = "raised" =>
        \E i \in 1..Len(h_log) :
            h_result = Some([k |-> "raise", kind |-> h_log[i], n |-> i])

-----------------------------------------------------------------------------
(* Properties of discover_providers *)

Returns == {i \in 1..Len(d_calls) : d_calls[i].op = "return"}

\* C13: a call without names returns every discovered provider; a call with
\* names returns exactly the discovered providers whose name is among them,
\* in discovery order, and a name that matches no provider adds nothing and
\* raises nothing.
C13_DiscoverSelects ==
    \A i \in Returns :
        LET e == d_calls[i]
            all == iter_provider_classes
        IN  IF e.names = <<>> THEN e.ret = all
            ELSE IsRestriction(e.ret, all,
                               {j \in 1..Len(all) : all[j] \in SeqToSet(e.names)})

\* names given in the reverse of discovery order came back in discovery
\* order, an unknown name next to a known one was dropped, and an unknown
\* name alone gave the empty list
C13_Witness ==
    /\ \E i \in Returns :
        d_calls[i].names = <<RENTCAST, NYC>> /\ d_calls[i].ret = <<NYC, RENTCAST>>
    /\ \E i \in Returns : d_calls[i].names = <<"zillow", NYC>> /\ d_calls[i].ret = <<NYC>>
    /\ \E i \in Returns : d_calls[i].names = <<"zillow">> /\ d_calls[i].ret = <<>>

\* C17: calls with the same enabled_names return the same providers in the
\* same order, whatever the interleaving of the callers; every call has read
\* the same cache content, which is the content the cache has now; a caller
\* that modifies the list it was given changes neither.
C17_DiscoveryIdempotent ==
    /\ \A i, j \in Returns :
        /\ d_calls[i].names = d_calls[j].names => d_calls[i].ret = d_calls[j].ret
        /\ d_calls[i].cache = d_calls[j].cache
    /\ ~IsNone(DISCOVERED) => \A i \in Returns : d_calls[i].cache = Val(DISCOVERED)
    /\ d_scans > 0 <=> ~IsNone(DISCOVERED)

\* two callers both found the cache empty and both filled it; one of them
\* modified the complete list it was given, and a later call without names
\* returned the complete list again
C17_Witness ==
    /\ d_scans = 2
    /\ \E i, j, k \in 1..Len(d_calls) :
        /\ i < j /\ j < k
        /\ d_calls[i].op = "return" /\ d_calls[i].names = <<>>
        /\ d_calls[j].op = "modify" /\ d_calls[j].caller = d_calls[i].caller
        /\ d_calls[k].op = "return" /\ d_calls[k].names = <<>>
        /\ d_calls[k].ret = d_calls[i].ret /\ d_calls[k].ret # <<>>

-----------------------------------------------------------------------------
(* Properties of the providers' fetch *)

\* the positions of the response whose item is a row that _normalize accepts
Normalizable ==
    {i \in 1..Len(p_raw.items) :
        p_raw.items[i].kind = "dict" /\ normalize(p_provider, p_raw.items[i]).k = "ok"}

\* C15: fetch never raises on a response it has obtained; a response that
\* is not a list gives the empty result; of a list, the rows that can be
\* normalized are returned in upstream order, whatever rows lie between them.
C15_BadRowSkipped ==
    /\ p_pc # "raised"
    /\ (p_pc = "returned" /\ p_raw.kind # "list") => p_apartments = <<>>
    /\ p_pc \in {"rows", "returned"} =>
        LET done == {i \in Normalizable : i < p_i}
        IN  /\ Len(p_apartments) = Cardinality(done)
            /\ \A i \in done :
                p_apartments[Cardinality({j \in done : j <= i})]
                    = normalize(p_provider, p_raw.items[i]).v
    /\ p_pc = "returned" => p_i > Len(p_raw.items)

\* a response with a row that makes _normalize raise between two rows that
\* are fine: both of them were returned, in order
C15_Witness ==
    /\ p_pc = "returned" /\ p_raw.kind = "list" /\ Len(p_raw.items) = 3
    /\ Normalizable = {1, 3}
    /\ p_raw.items[2].kind = "dict"
    /\ Len(p_apartments) = 2 /\ p_apartments[1].id = "1" /\ p_apartments[2].id = "2"

\* C16: every listing a provider's fetch has produced has no price or a
\* price that is not negative.
C16_PriceNonNegative ==
    \A i \in 1..Len(p_apartments) :
        IsNone(p_apartments[i].price) \/ Val(p_apartments[i].price) >= 0

-----------------------------------------------------------------------------
(* Properties of the seen-id store *)

\* C19: get_new_since_last_run(L) returns the listings of L whose key no
\* earlier call was given, in the order of L; after a call every key of its
\* input is recorded, and every row recorded before is still there with its
\* timestamp; get_new_since_last_run(L) right after a call with the same L,
\* of either operation, returns the empty list.
C19_NewOnlyOnce ==
    /\ \A i \in 1..Len(s_log) :
        LET e == s_log[i]
        IN  /\ e.op = "get_new" =>
                e.out = SelectSeq(e.input, LAMBDA apt : Key(apt) \notin e.seen)
            /\ KeysOf(e.input) \subseteq DOMAIN e.after
            /\ \A key \in DOMAIN e.before :
                key \in DOMAIN e.after /\ e.after[key] = e.before[key]
            /\ DOMAIN e.before = e.seen
    /\ DOMAIN s_table = SeenSoFar
    /\ (Len(s_log) = 2 /\ s_log[2].op = "get_new" /\ s_log[2].input = s_log[1].input) =>
        s_log[2].out = <<>>

\* a later second: get_new_since_last_run returned a new listing after a seen
\* one was recorded earlier, the seen row kept its earlier timestamp, and the
\* same list passed again came back empty
C19_Witness ==
    /\ Len(s_log) = 2
    /\ s_log[1].op = "get_new" /\ s_log[2].op = "get_new"
    /\ s_log[1].input = s_log[2].input
    /\ Len(s_log[1].input) = 2 /\ Len(s_log[1].out) = 1
    /\ s_log[2].out = <<>>
    /\ \E k1, k2 \in DOMAIN s_table : s_table[k1] < s_table[k2]

=============================================================================
